---------------------------- MODULE Spec2Model ----------------------------
(***************************************************************************)
(* Model of src/src/components/ContentConverter.tsx.  The file holds the   *)
(* two variants of the ContentConverter component:                         *)
(*   - the reactive variant (lines 26-251): a useEffect re-parses the raw  *)
(*     text after every change of inputContent, with the order-independent *)
(*     extractField patterns (TolerantMode);                               *)
(*   - the on-demand variant (lines 273-563): parseContent runs when the   *)
(*     "Parse Content" button is pressed, with one pattern per field, each *)
(*     bounded by the next expected label (StrictMode).                    *)
(*                                                                         *)
(* A JavaScript string is modelled as a sequence of tokens.  A token is    *)
(* either one character (a space, a newline, "|", ",", a double quote, a   *)
(* decimal digit, an ordinary character) or one occurrence of the text of  *)
(* a label: "slug:" is the five characters s-l-u-g-colon written in lower  *)
(* case and "SLUG:" is the same label written in any other letter case.    *)
(* No label text is a substring of another label text and no ordinary      *)
(* character of the alphabet is part of one, so a regular expression finds *)
(* a label exactly where a label token stands.  A `.` that runs over the   *)
(* characters of a label text runs over its token.                         *)
(***************************************************************************)
EXTENDS Integers, Sequences, FiniteSets, TLC

VARIABLES
    reactive,   \* state of the reactive component: inputContent, parsedData,
                \* error, and whether its useEffect is still to run
    onDemand,   \* state of the on-demand component: inputContent, parsedData,
                \* error, activeTab
    now,        \* the last reading of the clock (Date.now())
    hostCall    \* the last call a component made to the host environment
                \* (navigator.clipboard.writeText or the file download)

vars == <<reactive, onDemand, now, hostCall>>

(***************************************************************************)
(* Bounds of the model.                                                    *)
(***************************************************************************)
\* longest raw text drawn from the whole alphabet
MaxLen == 3
\* the clock reading when the component is constructed
ClockStart == 9
\* how far the clock advances
MaxTicks == 1

(***************************************************************************)
(* The six labels.                                                         *)
(***************************************************************************)
FieldNames == <<"slug", "title", "category", "excerpt", "content", "image">>

Fields == {FieldNames[i] : i \in 1..Len(FieldNames)}

\* the label text as the patterns spell it
Label == [slug |-> "slug:", title |-> "title:", category |-> "category:",
          excerpt |-> "excerpt:", content |-> "content:", image |-> "image:"]

\* the same label text in another letter case ("Slug:", "SLUG:", ...)
OtherCase == [slug |-> "SLUG:", title |-> "TITLE:", category |-> "CATEGORY:",
              excerpt |-> "EXCERPT:", content |-> "CONTENT:", image |-> "IMAGE:"]

\* the tokens a pattern's literal `name:` matches, with and without flag i
LabelTokens(fieldName, ignoreCase) ==
    IF ignoreCase THEN {Label[fieldName], OtherCase[fieldName]}
    ELSE {Label[fieldName]}

AllLabelTokens(ignoreCase) ==
    UNION {LabelTokens(f, ignoreCase) : f \in Fields}

\* the characters \s matches
Whitespace == {" ", "\n"}

(***************************************************************************)
(* String.prototype.trim                                                   *)
(***************************************************************************)
RECURSIVE TrimStart(_)
TrimStart(s) ==
    IF s # <<>> /\ Head(s) \in Whitespace THEN TrimStart(Tail(s)) ELSE s

RECURSIVE TrimEnd(_)
TrimEnd(s) ==
    IF s # <<>> /\ s[Len(s)] \in Whitespace
    THEN TrimEnd(SubSeq(s, 1, Len(s) - 1))
    ELSE s

trim(s) == TrimEnd(TrimStart(s))

(***************************************************************************)
(* The regular expressions.  Every pattern of the file has the shape       *)
(*     name: \s* [ \| \s* ] (.+?) (?= \s* (?:stop1|stop2|...) | $ )        *)
(* with flag s (`.` matches a newline too) and no flag m (`$` is the end   *)
(* of the input).  RegExp.prototype.exec returns the leftmost match and,   *)
(* at one start, the first one in backtracking order: \s* greedy, the      *)
(* group lazy.                                                             *)
(***************************************************************************)
\* exec returned null
NoMatch == <<>>

\* where a greedy \s* that starts at j stops
RECURSIVE SkipSpace(_, _)
SkipSpace(s, j) ==
    IF j <= Len(s) /\ s[j] \in Whitespace THEN SkipSpace(s, j + 1) ELSE j

\* the lookahead (?=\s*(?:stops)|$) at position p
LookAhead(s, p, stops) ==
    \/ LET k == SkipSpace(s, p) IN k <= Len(s) /\ s[k] \in stops
    \/ p = Len(s) + 1

\* the last position of the lazy group (.+?) whose last character so far is
\* at e: it takes one more character until the lookahead succeeds
RECURSIVE LazyEnd(_, _, _)
LazyEnd(s, e, stops) ==
    IF LookAhead(s, e + 1, stops) THEN e ELSE LazyEnd(s, e + 1, stops)

\* \s*(.+?)(?=...) from position j on; the result is <<group 1>> or NoMatch.
\* The greedy \s* takes all the whitespace; when a character follows, the
\* group starts there.  When only whitespace follows up to the end of the
\* input, \s* gives its last character back to the group.  When nothing
\* follows, the group cannot take its one character.
Capture(s, j, stops) ==
    LET k == SkipSpace(s, j) IN
    IF j > Len(s) THEN NoMatch
    ELSE IF k <= Len(s) THEN <<SubSeq(s, k, LazyEnd(s, k, stops))>>
    ELSE <<SubSeq(s, Len(s), Len(s))>>

\* the pattern tried with its label at position i; marker says whether the
\* pattern has \s*\| after the label
MatchAt(s, i, marker, stops) ==
    IF ~marker THEN Capture(s, i + 1, stops)
    ELSE LET k == SkipSpace(s, i + 1) IN
         IF k <= Len(s) /\ s[k] = "|" THEN Capture(s, k + 1, stops)
         ELSE NoMatch

\* pattern.exec(s): the match at the leftmost start that has one
exec(s, labels, marker, stops) ==
    LET starts == {i \in 1..Len(s) :
                      s[i] \in labels /\ MatchAt(s, i, marker, stops) # NoMatch}
    IN IF starts = {} THEN NoMatch
       ELSE MatchAt(s, CHOOSE i \in starts : \A j \in starts : i <= j,
                    marker, stops)

(***************************************************************************)
(* The reactive component (TolerantMode).                                  *)
(***************************************************************************)
\* parsedData = null
null == [isNull |-> TRUE]

InsufficientFields ==
    "Could not extract required fields. Please check your input format."

\* the placeholders of lines 78-83, each a run of ordinary characters
Placeholder ==
    [slug |-> <<"no-slug-found">>, title |-> <<"No Title Found">>,
     category |-> <<"Uncategorized">>, excerpt |-> <<"No excerpt available">>,
     content |-> <<"No content available">>,
     image |-> <<"No image URL provided">>]

\* a || b without its right-hand side: the field as extracted
OrElseNothing(a, b) == a

\* a || b on strings
OrElse(a, b) == IF a # <<>> THEN a ELSE b

extractField(inputContent, fieldName) ==
    LET match == exec(inputContent, LabelTokens(fieldName, TRUE), FALSE,
                      AllLabelTokens(TRUE))
    IN IF match # NoMatch THEN trim(match[1]) ELSE <<>>

\* lines 63-66 without the fall back to extractField
extractContentMarkerOnly(inputContent) ==
    LET contentMatch == exec(inputContent, LabelTokens("content", TRUE), TRUE,
                             AllLabelTokens(TRUE)
                                 \ LabelTokens("content", TRUE))
    IN IF contentMatch # NoMatch THEN trim(contentMatch[1]) ELSE <<>>

\* lines 63-66: the content pattern with the block marker, else extractField
extractContent(inputContent) ==
    LET contentMatch == exec(inputContent, LabelTokens("content", TRUE), TRUE,
                             AllLabelTokens(TRUE)
                                 \ LabelTokens("content", TRUE))
    IN IF contentMatch # NoMatch THEN trim(contentMatch[1])
       ELSE extractField(inputContent, "content")

\* parseContent of the reactive component, run on state c when the clock
\* reads t; the result is the state it leaves
parseContentTolerant(c, t) ==
    LET cleared == [c EXCEPT !.error = ""]
        slug == extractField(c.inputContent, "slug")
        title == extractField(c.inputContent, "title")
        category == extractField(c.inputContent, "category")
        excerpt == extractField(c.inputContent, "excerpt")
        content == extractContent(c.inputContent)
        image == extractField(c.inputContent, "image")
    IN IF trim(c.inputContent) = <<>>
       THEN [cleared EXCEPT !.parsedData = null]
       ELSE IF slug = <<>> /\ title = <<>> /\ content = <<>>
       THEN [cleared EXCEPT !.error = InsufficientFields]
       ELSE [cleared EXCEPT !.parsedData =
                [id |-> t,
                 slug |-> OrElse(slug, Placeholder.slug),
                 title |-> OrElse(title, Placeholder.title),
                 category |-> OrElse(category, Placeholder.category),
                 excerpt |-> OrElse(excerpt, Placeholder.excerpt),
                 content |-> OrElse(content, Placeholder.content),
                 image |-> OrElse(image, Placeholder.image)]]

\* the body of the useEffect of lines 32-38
useEffect(c, t) ==
    IF trim(c.inputContent) # <<>> THEN parseContentTolerant(c, t)
    ELSE [c EXCEPT !.parsedData = null]


(***************************************************************************)
(* The serialisers: copyToClipboard and exportAsCSV.                       *)
(***************************************************************************)
Digit == <<"0", "1", "2", "3", "4", "5", "6", "7", "8", "9">>

\* Number.prototype.toString of a non-negative integer
RECURSIVE toString(_)
toString(n) ==
    IF n < 10 THEN <<Digit[n + 1]>>
    ELSE toString(n \div 10) \o <<Digit[(n % 10) + 1]>>

\* Array.prototype.join
RECURSIVE join(_, _)
join(strings, separator) ==
    IF strings = <<>> THEN <<>>
    ELSE IF Len(strings) = 1 THEN strings[1]
    ELSE strings[1] \o separator \o join(Tail(strings), separator)

includes(value, character) == \E i \in 1..Len(value) : value[i] = character

\* value.replace(/"/g, '""')
RECURSIVE doubleQuotes(_)
doubleQuotes(value) ==
    IF value = <<>> THEN <<>>
    ELSE (IF Head(value) = "\"" THEN <<"\"", "\"">> ELSE <<Head(value)>>)
             \o doubleQuotes(Tail(value))

\* the callback without the doubling of the inner double quotes
escapeValueUndoubled(value) ==
    IF includes(value, ",") \/ includes(value, "\"") \/ includes(value, "\n")
    THEN <<"\"">> \o value \o <<"\"">>
    ELSE value

\* the callback of values.map at lines 132-137 and 367-373
escapeValue(value) ==
    IF includes(value, ",") \/ includes(value, "\"") \/ includes(value, "\n")
    THEN <<"\"">> \o doubleQuotes(value) \o <<"\"">>
    ELSE value

\* the array `values` both serialisers build from the record
values(parsedData) ==
    <<toString(parsedData.id), parsedData.slug, parsedData.title,
      parsedData.category, parsedData.excerpt, parsedData.content,
      parsedData.image>>

escapedValues(parsedData) ==
    [i \in 1..7 |-> escapeValue(values(parsedData)[i])]

\* the header cells, each a run of ordinary characters
headers == <<<<"id">>, <<"slug">>, <<"title">>, <<"category">>, <<"excerpt">>,
             <<"content">>, <<"image">>>>

\* `content_${parsedData.slug}.csv`
fileName(parsedData) == <<"content_">> \o parsedData.slug \o <<".csv">>

\* the reactive variant: the data values alone (lines 98-106, 121-139)
dataValues(parsedData) == join(values(parsedData), <<"\t">>)

csvContentReactive(parsedData) == join(escapedValues(parsedData), <<",">>)

\* the on-demand variant: a header row first (lines 327-341, 355-378)
tsvData(parsedData) ==
    join(<<join(headers, <<"\t">>), join(values(parsedData), <<"\t">>)>>,
         <<"\n">>)

csvContentOnDemand(parsedData) ==
    join(<<join(headers, <<",">>), join(escapedValues(parsedData), <<",">>)>>,
         <<"\n">>)

(***************************************************************************)
(* The on-demand component (StrictMode).                                   *)
(***************************************************************************)
EmptyInput == "Please enter content to parse"

MalformedInput == "Invalid format. Please check your input content format."

\* parseContent of the on-demand component, run on state c when the clock
\* reads t; the result is the state it leaves
parseContentStrict(c, t) ==
    LET cleared == [c EXCEPT !.error = ""]
        raw == c.inputContent
        slugMatch == exec(raw, {Label.slug}, FALSE, {Label.title})
        titleMatch == exec(raw, {Label.title}, FALSE, {Label.category})
        categoryMatch == exec(raw, {Label.category}, FALSE, {Label.excerpt})
        excerptMatch == exec(raw, {Label.excerpt}, FALSE, {Label.content})
        contentMatch == exec(raw, {Label.content}, TRUE, {Label.image})
        imageMatch == exec(raw, {Label.image}, FALSE, {})
    IN IF trim(raw) = <<>>
       THEN [cleared EXCEPT !.error = EmptyInput]
       ELSE IF \/ slugMatch = NoMatch \/ titleMatch = NoMatch
               \/ categoryMatch = NoMatch \/ excerptMatch = NoMatch
               \/ contentMatch = NoMatch \/ imageMatch = NoMatch
       THEN [cleared EXCEPT !.error = MalformedInput]
       ELSE [cleared EXCEPT
                !.parsedData =
                    [id |-> t,
                     slug |-> trim(slugMatch[1]),
                     title |-> trim(titleMatch[1]),
                     category |-> trim(categoryMatch[1]),
                     excerpt |-> trim(excerptMatch[1]),
                     content |-> trim(contentMatch[1]),
                     image |-> trim(imageMatch[1])],
                !.activeTab = "preview"]


(***************************************************************************)
(* The raw texts the model types into the textarea.                        *)
(***************************************************************************)
Alphabet == AllLabelTokens(TRUE) \cup Whitespace \cup {"|", ",", "\"", "x"}

\* every text of at most n tokens
Strings(n) == UNION {[1..k -> Alphabet] : k \in 0..n}

\* one `label: value` entry; the content entry has the block marker unless
\* plain says otherwise
Entry(fieldName, value, upper, plain) ==
    <<IF fieldName \in upper THEN OtherCase[fieldName] ELSE Label[fieldName]>>
        \o <<" ">>
        \o (IF fieldName = "content" /\ ~plain THEN <<"|", "\n">> ELSE <<>>)
        \o value

\* the entries of the fields of `order`, in that order, one per line
Document(order, value, upper, plain) ==
    join([i \in 1..Len(order) |->
              Entry(order[i], value[order[i]], upper, plain)], <<"\n">>)

\* a value for each field, as in the example of the format:
\*   title: b, b     excerpt: e "e"     content: | k (newline) k
SampleValue ==
    [slug |-> <<"a">>, title |-> <<"b", ",", " ", "b">>, category |-> <<"c">>,
     excerpt |-> <<"e", " ", "\"", "e", "\"">>,
     content |-> <<"k", "\n", "k">>, image |-> <<"i">>]

\* the sample values, and the sample values with one field left empty
OneEmpty ==
    {SampleValue} \cup {[SampleValue EXCEPT ![f] = <<>>] : f \in Fields}

\* every field either empty or one character
ShortValues == [Fields -> {<<>>, <<"x">>}]

Orders ==
    {p \in [1..Len(FieldNames) -> Fields] :
        \A i, j \in 1..Len(FieldNames) : p[i] = p[j] => i = j}

\* FieldNames without the fields outside present
RECURSIVE Keep(_, _)
Keep(order, present) ==
    IF order = <<>> THEN <<>>
    ELSE (IF Head(order) \in present THEN <<Head(order)>> ELSE <<>>)
             \o Keep(Tail(order), present)

\* the six entries in every order
PermutedDocuments ==
    {Document(p, v, {}, FALSE) : p \in Orders, v \in OneEmpty}

\* the canonical order with the labels in either letter case
CaseDocuments ==
    {Document(FieldNames, SampleValue, upper, FALSE) : upper \in SUBSET Fields}

\* the canonical order with some entries left out
PartialDocuments ==
    {Document(Keep(FieldNames, present), SampleValue, {}, FALSE) :
        present \in SUBSET Fields}

\* the canonical order with short and empty values
ShortDocuments ==
    {Document(FieldNames, v, {}, FALSE) : v \in ShortValues}

\* the canonical order with a label text inside the content body
EmbeddedDocuments ==
    {Document(FieldNames,
              [SampleValue EXCEPT !.content = <<"k", " ", Label[f], " ", "k">>],
              {}, FALSE) : f \in Fields}

\* content written without the block marker, in the canonical order and last
PlainDocuments ==
    {Document(FieldNames, SampleValue, {}, TRUE),
     Document(<<"slug", "title", "category", "excerpt", "image", "content">>,
              SampleValue, {}, TRUE)}

\* values made of the characters the CSV escaping looks at
CsvValues == UNION {[1..k -> {"x", ",", "\"", "\n"}] : k \in 1..MaxLen}

\* the canonical order with every such value as the title
QuoteDocuments ==
    {Document(FieldNames, [SampleValue EXCEPT !.title = v], {}, FALSE) :
        v \in CsvValues}

\* two content entries, the one with the block marker second; and a marker
\* with nothing but whitespace after it
MarkerTexts ==
    {<<"content:", " ", "x", "\n", "content:", " ", "|", " ", "x">>,
     <<"content:", " ", "x", "\n", "content:", " ", "|", " ">>,
     <<"content:", " ", "x", "\n", "CONTENT:", "|">>,
     <<"title:", "\n", "content:", " ", "|", "\n">>}

Documents ==
    PermutedDocuments \cup CaseDocuments \cup PartialDocuments
        \cup ShortDocuments \cup EmbeddedDocuments \cup PlainDocuments
        \cup QuoteDocuments \cup MarkerTexts

\* the texts the pure-extraction specifications start from
RawInputs == Strings(MaxLen) \cup Documents

\* the texts typed one after the other in the flow specifications
FlowInputs ==
    {<<>>, <<" ", "\n">>, <<"x">>, <<"slug:">>, <<"slug:", " ", "x">>,
     <<"TITLE:", "x", ",", "x">>, <<"content:", " ", "|", "\n", "x", "\"">>,
     <<"category:", " ", "x">>, <<"image:", " ", "x">>,
     Document(FieldNames, SampleValue, {}, FALSE),
     Document(FieldNames, SampleValue, {"slug"}, FALSE),
     Document(FieldNames, [SampleValue EXCEPT !.title = <<>>], {}, FALSE),
     Document(<<"title", "slug", "category", "excerpt", "content", "image">>,
              SampleValue, {}, FALSE),
     Document(<<"slug", "title", "category", "excerpt", "content">>,
              SampleValue, {}, FALSE),
     Document(<<"slug", "title", "content">>, SampleValue, {}, FALSE),
     Document(FieldNames,
              [SampleValue EXCEPT
                  !.content = <<"k", " ", "image:", " ", "k">>], {}, FALSE)}

(***************************************************************************)
(* The state machine.                                                      *)
(***************************************************************************)
\* what Date.now() can return after it returned `last`
ClockReadings(last) == last..(ClockStart + MaxTicks)

NoCall == [api |-> "none"]

\* useState of lines 27-29; the effect of line 32 runs after the first render
ReactiveConstructed ==
    [inputContent |-> <<>>, parsedData |-> null, error |-> "",
     effectPending |-> TRUE]

\* useState of lines 274-277
OnDemandConstructed ==
    [inputContent |-> <<>>, parsedData |-> null, error |-> "",
     activeTab |-> "input"]

Init ==
    /\ reactive = ReactiveConstructed
    /\ onDemand = OnDemandConstructed
    /\ now = ClockStart
    /\ hostCall = NoCall

\* onChange of the textarea, line 179: the new value schedules the effect
\* when it differs from the old one (the effect depends on inputContent)
ReactiveSetInputContent(value) ==
    /\ ~reactive.effectPending
    /\ reactive' = [reactive EXCEPT
                       !.inputContent = value,
                       !.effectPending = (value # reactive.inputContent)]
    /\ UNCHANGED <<onDemand, now, hostCall>>

\* the effect of lines 32-38 runs; the clock is read when a record is built
ReactiveEffect ==
    /\ reactive.effectPending
    /\ \E t \in ClockReadings(now) :
          /\ reactive' = [useEffect(reactive, t) EXCEPT !.effectPending = FALSE]
          /\ now' = IF reactive'.parsedData # reactive.parsedData THEN t ELSE now
    /\ UNCHANGED <<onDemand, hostCall>>

\* copyToClipboard, lines 93-114
ReactiveCopyToClipboard ==
    /\ ~reactive.effectPending
    /\ reactive.parsedData # null
    /\ hostCall' = [api |-> "clipboard.writeText",
                    text |-> dataValues(reactive.parsedData)]
    /\ UNCHANGED <<reactive, onDemand, now>>

\* exportAsCSV, lines 116-159
ReactiveExportAsCSV ==
    /\ ~reactive.effectPending
    /\ reactive.parsedData # null
    /\ hostCall' = [api |-> "download",
                    name |-> fileName(reactive.parsedData),
                    content |-> csvContentReactive(reactive.parsedData)]
    /\ UNCHANGED <<reactive, onDemand, now>>

\* onChange of the textarea, line 434
OnDemandSetInputContent(value) ==
    /\ onDemand' = [onDemand EXCEPT !.inputContent = value]
    /\ UNCHANGED <<reactive, now, hostCall>>

\* onClick of "Parse Content", line 442
OnDemandParseContent ==
    /\ \E t \in ClockReadings(now) :
          /\ onDemand' = parseContentStrict(onDemand, t)
          /\ now' = IF onDemand'.parsedData # onDemand.parsedData THEN t ELSE now
    /\ UNCHANGED <<reactive, hostCall>>

\* onValueChange of the tabs (line 407; the preview and table triggers are
\* disabled without a record, lines 413 and 417) and "View as Table", line 492
OnDemandSetActiveTab(tab) ==
    /\ tab = "input" \/ onDemand.parsedData # null
    /\ onDemand' = [onDemand EXCEPT !.activeTab = tab]
    /\ UNCHANGED <<reactive, now, hostCall>>

\* copyToClipboard, lines 322-348; its button is on the table tab
OnDemandCopyToClipboard ==
    /\ onDemand.activeTab = "table"
    /\ onDemand.parsedData # null
    /\ hostCall' = [api |-> "clipboard.writeText",
                    text |-> tsvData(onDemand.parsedData)]
    /\ UNCHANGED <<reactive, onDemand, now>>

\* exportAsCSV, lines 350-398; its button is on the table tab
OnDemandExportAsCSV ==
    /\ onDemand.activeTab = "table"
    /\ onDemand.parsedData # null
    /\ hostCall' = [api |-> "download",
                    name |-> fileName(onDemand.parsedData),
                    content |-> csvContentOnDemand(onDemand.parsedData)]
    /\ UNCHANGED <<reactive, onDemand, now>>

\* the reactive component from its construction on
Next ==
    \/ \E value \in FlowInputs : ReactiveSetInputContent(value)
    \/ ReactiveEffect
    \/ ReactiveCopyToClipboard
    \/ ReactiveExportAsCSV

Spec == Init /\ [][Next]_vars

\* the on-demand component from its construction on
NextOnDemand ==
    \/ \E value \in FlowInputs : OnDemandSetInputContent(value)
    \/ OnDemandParseContent
    \/ \E tab \in {"input", "preview", "table"} : OnDemandSetActiveTab(tab)
    \/ OnDemandCopyToClipboard
    \/ OnDemandExportAsCSV

SpecOnDemand == Init /\ [][NextOnDemand]_vars

\* TolerantMode extraction and the serialisers as functions of the raw text:
\* the reactive component constructed over a raw text, and what its effect
\* and its buttons do with it
InitTolerant ==
    /\ \E raw \in RawInputs :
          reactive = [ReactiveConstructed EXCEPT !.inputContent = raw]
    /\ onDemand = OnDemandConstructed
    /\ now = ClockStart
    /\ hostCall = NoCall

NextTolerant ==
    \/ ReactiveEffect
    \/ ReactiveCopyToClipboard
    \/ ReactiveExportAsCSV

SpecTolerant == InitTolerant /\ [][NextTolerant]_vars

\* the texts both components are constructed over in SpecExport
ExportInputs ==
    QuoteDocuments \cup ShortDocuments \cup EmbeddedDocuments
        \cup PlainDocuments

\* both extractions and both pairs of serialisers as functions of the raw
\* text: the two components constructed over the same raw text
InitExport ==
    /\ \E raw \in ExportInputs :
          /\ reactive = [ReactiveConstructed EXCEPT !.inputContent = raw]
          /\ onDemand = [OnDemandConstructed EXCEPT !.inputContent = raw]
    /\ now = ClockStart
    /\ hostCall = NoCall

NextExport ==
    \/ ReactiveEffect
    \/ ReactiveCopyToClipboard
    \/ ReactiveExportAsCSV
    \/ OnDemandParseContent
    \/ \E tab \in {"input", "preview", "table"} : OnDemandSetActiveTab(tab)
    \/ OnDemandCopyToClipboard
    \/ OnDemandExportAsCSV

SpecExport == InitExport /\ [][NextExport]_vars


(***************************************************************************)
(* What the claims speak of, read off the raw text itself.                 *)
(***************************************************************************)
IsLabel(token) == token \in AllLabelTokens(TRUE)

FieldOf(token) == CHOOSE f \in Fields : token \in LabelTokens(f, TRUE)

\* the fields whose labels stand in the text, in the order they stand in
RECURSIVE LabelFields(_)
LabelFields(raw) ==
    IF raw = <<>> THEN <<>>
    ELSE (IF IsLabel(Head(raw)) THEN <<FieldOf(Head(raw))>> ELSE <<>>)
             \o LabelFields(Tail(raw))

HasLabel(raw, f) == \E i \in 1..Len(raw) : raw[i] \in LabelTokens(f, TRUE)

\* where the first label of f stands
LabelAt(raw, f) ==
    CHOOSE i \in 1..Len(raw) :
        /\ raw[i] \in LabelTokens(f, TRUE)
        /\ \A j \in 1..(i - 1) : raw[j] \notin LabelTokens(f, TRUE)

\* where the next label after position i stands, or the end of the text
RECURSIVE NextLabel(_, _)
NextLabel(raw, i) ==
    IF i + 1 > Len(raw) \/ IsLabel(raw[i + 1]) THEN i + 1
    ELSE NextLabel(raw, i + 1)

\* the text written after the label at i, up to the next label
WrittenAfter(raw, i) == SubSeq(raw, i + 1, NextLabel(raw, i) - 1)

\* the same without the block marker
Body(text) ==
    IF trim(text) # <<>> /\ Head(trim(text)) = "|" THEN Tail(trim(text))
    ELSE text

\* the value written for f: the text after its label, trimmed
WrittenValue(raw, f) ==
    IF f = "content" THEN trim(Body(WrittenAfter(raw, LabelAt(raw, f))))
    ELSE trim(WrittenAfter(raw, LabelAt(raw, f)))

Blank(raw) == \A i \in 1..Len(raw) : raw[i] \in Whitespace

\* the text is six `label: value` entries, one per field, in some order
SixEntries(raw) ==
    /\ raw # <<>> /\ IsLabel(raw[1])
    /\ Len(LabelFields(raw)) = Len(FieldNames)
    /\ \A f \in Fields : HasLabel(raw, f)

\* the same entries in the order slug, title, category, excerpt, content, image
Canonical(raw) ==
    join([n \in 1..Len(FieldNames) |->
              LET i == LabelAt(raw, FieldNames[n])
              IN <<raw[i]>> \o TrimEnd(WrittenAfter(raw, i))], <<"\n">>)

\* the six text fields of two records agree
SameFields(r1, r2) == \A f \in Fields : r1[f] = r2[f]

\* two component states show the same outcome of a parse: the same error,
\* or no error and records with the same six fields
SameOutcome(c1, c2) ==
    /\ c1.error = c2.error
    /\ c1.error = "" =>
          /\ (c1.parsedData = null) = (c2.parsedData = null)
          /\ c1.parsedData # null => SameFields(c1.parsedData, c2.parsedData)

\* the effect of the reactive component has run over the text it holds
Extracted == ~reactive.effectPending /\ ~Blank(reactive.inputContent)

(***************************************************************************)
(* C1.  TolerantMode extraction is independent of the order of the six     *)
(* entries: a text of six entries gives the outcome its canonical ordering *)
(* gives.  The code does not keep this: an entry with an empty value       *)
(* captures the label and the value that follow it in the text.            *)
(***************************************************************************)
C1_OrderIndependent ==
    (Extracted /\ SixEntries(reactive.inputContent)) =>
        SameOutcome(reactive,
                    useEffect([reactive EXCEPT
                                  !.inputContent =
                                      Canonical(reactive.inputContent)], now))

(***************************************************************************)
(* C4.  TolerantMode extraction on non-empty input fails with              *)
(* InsufficientFields, and produces no record, exactly when slug, title    *)
(* and content are all absent.  C4_FailsIffLabelsAbsent reads absent as    *)
(* "the label is not in the raw text", as the claim does; the code fails   *)
(* as well when a label stands there and no value follows it.              *)
(* C4_FailsIffNoValue reads absent as "no value is written for it".        *)
(***************************************************************************)
TolerantFailed ==
    reactive.error = InsufficientFields /\ reactive.parsedData = null

TolerantSucceeded == reactive.error = "" /\ reactive.parsedData # null

\* C4 as claimed: on non-empty input the extraction fails with
\* InsufficientFields, no record produced, exactly when none of the labels
\* slug, title, content is in the raw text; otherwise it succeeds
C4_FailsIffLabelsAbsent ==
    Extracted =>
        /\ TolerantFailed \/ TolerantSucceeded
        /\ TolerantFailed <=>
              \A f \in {"slug", "title", "content"} :
                  ~HasLabel(reactive.inputContent, f)

\* some text other than whitespace stands after position i
TextAfter(raw, i) == \E j \in (i + 1)..Len(raw) : raw[j] \notin Whitespace

\* the positions of the `content: |` forms that have anything after the marker
MarkerForms(raw) ==
    {i \in 1..Len(raw) :
        /\ raw[i] \in LabelTokens("content", TRUE)
        /\ \E k \in (i + 1)..(Len(raw) - 1) :
              /\ raw[k] = "|"
              /\ \A j \in (i + 1)..(k - 1) : raw[j] \in Whitespace}

\* where the marker of the form at i stands
MarkerOf(raw, i) ==
    CHOOSE k \in (i + 1)..Len(raw) :
        raw[k] = "|" /\ \A j \in (i + 1)..(k - 1) : raw[j] \in Whitespace

\* a value is written for f: text other than whitespace follows its label;
\* and for content, when the text has `content: |` forms, text other than
\* whitespace follows the marker of the first of them
HasValue(raw, f) ==
    IF f = "content" /\ MarkerForms(raw) # {}
    THEN LET i == CHOOSE i \in MarkerForms(raw) :
                      \A j \in MarkerForms(raw) : i <= j
         IN TextAfter(raw, MarkerOf(raw, i))
    ELSE \E i \in 1..Len(raw) :
            raw[i] \in LabelTokens(f, TRUE) /\ TextAfter(raw, i)

\* C4 amended: on non-empty input the extraction fails with
\* InsufficientFields, no record produced, exactly when no value is written
\* for slug, for title or for content; otherwise it succeeds
C4_FailsIffNoValue ==
    Extracted =>
        /\ TolerantFailed \/ TolerantSucceeded
        /\ TolerantFailed <=>
              \A f \in {"slug", "title", "content"} :
                  ~HasValue(reactive.inputContent, f)

\* the extraction has failed over a text with the slug label in it
C4_Witness ==
    /\ Extracted
    /\ TolerantFailed
    /\ HasLabel(reactive.inputContent, "slug")


(***************************************************************************)
(* C5.  In the reactive flow every held record has its six text fields,    *)
(* none of them empty; and the record the effect has just built over the   *)
(* text in the textarea (no error is shown) holds the placeholder of every *)
(* field whose label is not in that text.                                  *)
(***************************************************************************)
C5_HeldRecordComplete ==
    reactive.parsedData # null =>
        /\ DOMAIN reactive.parsedData = Fields \cup {"id"}
        /\ \A f \in Fields : reactive.parsedData[f] # <<>>
        /\ (Extracted /\ reactive.error = "") =>
              \A f \in Fields :
                  ~HasLabel(reactive.inputContent, f) =>
                      reactive.parsedData[f] = Placeholder[f]

\* the text with the slug, title and content entries alone has been parsed
C5_Witness ==
    /\ Extracted
    /\ reactive.error = ""
    /\ LabelFields(reactive.inputContent) = <<"slug", "title", "content">>
    /\ reactive.parsedData # null
    /\ reactive.parsedData.slug = SampleValue.slug
    /\ reactive.parsedData.category = Placeholder.category
    /\ reactive.parsedData.excerpt = Placeholder.excerpt
    /\ reactive.parsedData.image = Placeholder.image

(***************************************************************************)
(* C9.  In the reactive flow a failed extraction clears the record held    *)
(* before: once the effect has run over a non-empty text and has set an    *)
(* error, no record is held.  The code sets the error and returns; the     *)
(* record parsed from the earlier text stays.                              *)
(***************************************************************************)
C9_FailureClearsRecord ==
    (Extracted /\ reactive.error # "") => reactive.parsedData = null


(***************************************************************************)
(* The claims on StrictMode are about one press of "Parse Content": they   *)
(* relate the state the press leaves to the text it ran over.              *)
(***************************************************************************)
\* the six labels, as the patterns spell them, once each and in the order
\* slug, title, category, excerpt, content, image, content with its marker
WellFormed(raw) ==
    /\ LabelFields(raw) = FieldNames
    /\ \A i \in 1..Len(raw) : IsLabel(raw[i]) => raw[i] = Label[FieldOf(raw[i])]
    /\ LET written == trim(WrittenAfter(raw, LabelAt(raw, "content")))
       IN written # <<>> /\ Head(written) = "|"

(***************************************************************************)
(* C2.  StrictMode extraction on a well-formed text produces a record in   *)
(* which every field is the text written after its own label up to the     *)
(* next label, trimmed.  The code does not keep this where nothing is      *)
(* written after a label: the field then takes the next label and all      *)
(* that follows it.                                                        *)
(***************************************************************************)
C2_StrictRecoversValues ==
    [][(OnDemandParseContent /\ WellFormed(onDemand.inputContent)) =>
          /\ onDemand'.error = ""
          /\ onDemand'.parsedData # null
          /\ \A f \in Fields :
                onDemand'.parsedData[f] = WrittenValue(onDemand.inputContent, f)
      ]_vars

(***************************************************************************)
(* C3.  In StrictMode, a text in which a label is missing, or in which the *)
(* six labels stand once each in another order, fails with MalformedInput  *)
(* and leaves the held record as it was.  The code fails on a missing      *)
(* label; it accepts the six labels in any order.                          *)
(***************************************************************************)
OutOfSequence(raw) ==
    \/ \E f \in Fields : ~HasLabel(raw, f)
    \/ Len(LabelFields(raw)) = Len(FieldNames) /\ LabelFields(raw) # FieldNames

\* C3: a press of "Parse Content" over a non-empty text that is out of
\* sequence sets the MalformedInput message and leaves the record as it was
C3_OutOfSequenceFails ==
    [][(/\ OnDemandParseContent
        /\ ~Blank(onDemand.inputContent)
        /\ OutOfSequence(onDemand.inputContent)) =>
          /\ onDemand'.error = MalformedInput
          /\ onDemand'.parsedData = onDemand.parsedData
      ]_vars

(***************************************************************************)
(* C6.  A content body, written with the block marker, that holds the text *)
(* `image:` is captured whole, up to the real image label (the last one),  *)
(* and the image value is the one written after the real label.  The code  *)
(* ends the body at the first `image:` in both modes.                      *)
(***************************************************************************)
\* a well-formed text but for one `image:` more, inside the content body
Embedded(raw) ==
    /\ LabelFields(raw) = FieldNames \o <<"image">>
    /\ \A i \in 1..Len(raw) : IsLabel(raw[i]) => raw[i] = Label[FieldOf(raw[i])]
    /\ LET written == trim(WrittenAfter(raw, LabelAt(raw, "content")))
       IN written # <<>> /\ Head(written) = "|"

\* where the real image label stands
RealImage(raw) ==
    CHOOSE i \in 1..Len(raw) :
        raw[i] = Label.image /\ \A j \in (i + 1)..Len(raw) : raw[j] # Label.image

IntendedContent(raw) ==
    trim(Body(SubSeq(raw, LabelAt(raw, "content") + 1, RealImage(raw) - 1)))

IntendedImage(raw) == trim(SubSeq(raw, RealImage(raw) + 1, Len(raw)))

KeepsEmbedded(raw, after) ==
    Embedded(raw) =>
        /\ after.error = ""
        /\ after.parsedData # null
        /\ after.parsedData.content = IntendedContent(raw)
        /\ after.parsedData.image = IntendedImage(raw)

\* C6: either extraction over a text with `image:` inside the content body
\* succeeds, with the whole body as content and the real image value as image
C6_EmbeddedImageKept ==
    [][/\ OnDemandParseContent => KeepsEmbedded(onDemand.inputContent, onDemand')
       /\ ReactiveEffect => KeepsEmbedded(reactive.inputContent, reactive')
      ]_vars

(***************************************************************************)
(* C7.  Label matching is case-insensitive in both modes: a text gives the *)
(* outcome that the same text with its labels in lower case gives.  The    *)
(* patterns of StrictMode have no flag i: they find a label in lower case  *)
(* alone.                                                                  *)
(***************************************************************************)
\* the text with every label as the patterns spell it
Fold(raw) ==
    [i \in 1..Len(raw) |->
        IF IsLabel(raw[i]) THEN Label[FieldOf(raw[i])] ELSE raw[i]]

\* C7: either extraction leaves the outcome it leaves over the same text
\* with its labels in lower case
C7_CaseInsensitive ==
    [][/\ OnDemandParseContent =>
             SameOutcome(onDemand',
                         parseContentStrict(
                             [onDemand EXCEPT
                                 !.inputContent = Fold(onDemand.inputContent)],
                             now))
       /\ ReactiveEffect =>
             SameOutcome(reactive',
                         useEffect(
                             [reactive EXCEPT
                                 !.inputContent = Fold(reactive.inputContent)],
                             now))
      ]_vars

(***************************************************************************)
(* C8.  A parse over an empty or whitespace-only text raises no error and  *)
(* leaves no record held, in both flows.  The effect of the reactive       *)
(* component does so; parseContent of the on-demand component sets the     *)
(* error "Please enter content to parse" and keeps the record it holds.    *)
(***************************************************************************)
C8_EmptyInputClears ==
    [][/\ (OnDemandParseContent /\ Blank(onDemand.inputContent)) =>
             /\ onDemand'.error = ""
             /\ onDemand'.parsedData = null
       /\ (ReactiveEffect /\ Blank(reactive.inputContent)) =>
             /\ reactive'.error \in {"", reactive.error}
             /\ reactive'.parsedData = null
      ]_vars


(***************************************************************************)
(* Reading a CSV text back: a cell that opens with a double quote runs to  *)
(* its closing quote, a doubled quote inside it standing for one quote;    *)
(* any other cell runs to the next comma or line end.                      *)
(***************************************************************************)
RECURSIVE ReadQuoted(_, _, _)
ReadQuoted(csv, j, read) ==
    IF j > Len(csv) THEN [value |-> read, quoted |-> TRUE, next |-> j]
    ELSE IF csv[j] # "\"" THEN ReadQuoted(csv, j + 1, Append(read, csv[j]))
    ELSE IF j + 1 <= Len(csv) /\ csv[j + 1] = "\""
    THEN ReadQuoted(csv, j + 2, Append(read, "\""))
    ELSE [value |-> read, quoted |-> TRUE, next |-> j + 1]

RECURSIVE ReadBare(_, _, _)
ReadBare(csv, j, read) ==
    IF j > Len(csv) \/ csv[j] \in {",", "\n"}
    THEN [value |-> read, quoted |-> FALSE, next |-> j]
    ELSE ReadBare(csv, j + 1, Append(read, csv[j]))

ReadCell(csv, i) ==
    IF i <= Len(csv) /\ csv[i] = "\"" THEN ReadQuoted(csv, i + 1, <<>>)
    ELSE ReadBare(csv, i, <<>>)

\* the rows of the text from position i on, each a sequence of cells; row
\* holds the cells already read of the row position i is in
RECURSIVE ReadCsv(_, _, _)
ReadCsv(csv, i, row) ==
    LET cell == ReadCell(csv, i)
        cells == Append(row, cell)
    IN IF cell.next > Len(csv) THEN <<cells>>
       ELSE IF csv[cell.next] = "\n"
       THEN <<cells>> \o ReadCsv(csv, cell.next + 1, <<>>)
       ELSE ReadCsv(csv, cell.next + 1, cells)

NeedsQuotes(value) ==
    \E i \in 1..Len(value) : value[i] \in {",", "\"", "\n"}

\* the data row of the text reads back as the seven values of the record,
\* each cell in quotes exactly when its value holds a comma, a double quote
\* or a newline; a header row, when there is one, comes first
ReadsBack(csv, record, withHeader) ==
    LET rows == ReadCsv(csv, 1, <<>>)
        data == rows[Len(rows)]
    IN /\ Len(rows) = IF withHeader THEN 2 ELSE 1
       /\ withHeader =>
             /\ Len(rows[1]) = Len(headers)
             /\ \A i \in 1..Len(headers) : rows[1][i].value = headers[i]
       /\ Len(data) = Len(values(record))
       /\ \A i \in 1..Len(data) :
             /\ data[i].value = values(record)[i]
             /\ data[i].quoted <=> NeedsQuotes(values(record)[i])

(***************************************************************************)
(* C10.  CSV escaping round-trips for every value of a record: the file    *)
(* either exportAsCSV writes reads back as the values of the record it was *)
(* written from, a value being in quotes exactly when it holds a comma, a  *)
(* double quote or a newline.                                              *)
(***************************************************************************)
\* C10: the file exportAsCSV writes, in either variant, reads back as the
\* record it was written from
C10_CsvRoundTrip ==
    [][/\ ReactiveExportAsCSV =>
             ReadsBack(hostCall'.content, reactive.parsedData, FALSE)
       /\ OnDemandExportAsCSV =>
             ReadsBack(hostCall'.content, onDemand.parsedData, TRUE)
      ]_vars

\* a file has been written whose data row has a quoted cell with a double
\* quote in it, one with a newline and one with a comma
C10_Witness ==
    /\ hostCall.api = "download"
    /\ LET rows == ReadCsv(hostCall.content, 1, <<>>)
           data == rows[Len(rows)]
       IN \A c \in {",", "\"", "\n"} :
             \E i \in 1..Len(data) :
                 data[i].quoted /\ includes(data[i].value, c)

(***************************************************************************)
(* Reading a clipboard payload back: the cells between the separators.     *)
(***************************************************************************)
\* String.prototype.split on a one-character separator; cell holds the
\* characters already read of the cell the text starts in
RECURSIVE split(_, _, _)
split(text, separator, cell) ==
    IF text = <<>> THEN <<cell>>
    ELSE IF Head(text) = separator
    THEN <<cell>> \o split(Tail(text), separator, <<>>)
    ELSE split(Tail(text), separator, Append(cell, Head(text)))

\* the payload is the seven values of the record and nothing else: cut at
\* its tabs it gives id, slug, title, category, excerpt, content, image
SevenValues(text, record) == split(text, "\t", <<>>) = values(record)

(***************************************************************************)
(* C11.  For every held record, the text copyToClipboard writes to the     *)
(* clipboard is exactly the seven values id, slug, title, category,        *)
(* excerpt, content, image, in that order, joined by single tabs: no       *)
(* header row before them and no newline after them.  copyToClipboard of   *)
(* the reactive component writes that; copyToClipboard of the on-demand    *)
(* component writes the row of the seven header names and a newline first. *)
(***************************************************************************)
\* C11: the text either copyToClipboard writes is the seven values of the
\* held record joined by tabs, with no header row and no trailing newline
C11_ClipboardPayload ==
    [][/\ ReactiveCopyToClipboard =>
             /\ hostCall'.api = "clipboard.writeText"
             /\ SevenValues(hostCall'.text, reactive.parsedData)
       /\ OnDemandCopyToClipboard =>
             /\ hostCall'.api = "clipboard.writeText"
             /\ SevenValues(hostCall'.text, onDemand.parsedData)
      ]_vars

(***************************************************************************)
(* C12.  In TolerantMode a value taken by the generic capture of           *)
(* extractField holds no label: the capture ends before the next label.    *)
(* The code does not keep this where nothing is written after a label:     *)
(* \s* of the pattern runs up to the next label and the group starts on    *)
(* it, so the field takes that label and the value written after it.       *)
(***************************************************************************)
\* the field is taken by extractField: every field but content, and content
\* when the text has no `content: |` form for contentPattern to match
GenericForm(raw, f) == f # "content" \/ MarkerForms(raw) = {}

HoldsLabel(value) == \E i \in 1..Len(value) : IsLabel(value[i])

\* the labels of f stand in the text, each with nothing but whitespace
\* between it and another label
EmptyBeforeLabel(raw, f) ==
    /\ HasLabel(raw, f)
    /\ \A i \in 1..Len(raw) :
          raw[i] \in LabelTokens(f, TRUE) =>
              /\ NextLabel(raw, i) <= Len(raw)
              /\ trim(WrittenAfter(raw, i)) = <<>>

\* C12: in the record TolerantMode builds, no field taken by the generic
\* capture holds a label, and a field whose label is directly followed by
\* another label holds its placeholder
C12_CaptureHoldsNoLabel ==
    (Extracted /\ TolerantSucceeded) =>
        \A f \in Fields :
            GenericForm(reactive.inputContent, f) =>
                /\ ~HoldsLabel(extractField(reactive.inputContent, f))
                /\ ~HoldsLabel(reactive.parsedData[f])
                /\ EmptyBeforeLabel(reactive.inputContent, f) =>
                       reactive.parsedData[f] = Placeholder[f]

=============================================================================
